---- MODULE Spec2Model ----
(***************************************************************************)
(* Model of MasterServer.py: the "servers" resource of the master server  *)
(* (registration, check-in, point lookup, list and latest queries) and    *)
(* the background job that sets stale servers inactive.                   *)
(*                                                                         *)
(* The table `server` is a set of rows.  Request handlers run in threads  *)
(* (one per request), each with its own scoped session; the statements a  *)
(* handler sends to the database are the steps of the model.              *)
(***************************************************************************)
EXTENDS Integers, Sequences, FiniteSets, TLC

(***************************************************************************)
(* Bounds of the model.                                                    *)
(***************************************************************************)
\* wall clock runs 0..MaxTime (seconds)
MaxTime == 4
\* ... and 0..Horizon where the scheduler is followed over several intervals
Horizon == 9

(***************************************************************************)
(* Program constants.                                                      *)
(***************************************************************************)
\* server_inactive_time = 3.0 : both the age limit and the job's interval
server_inactive_time == 3
\* the moment the module is imported (wall clock origin of the model)
ImportTime == 0
\* SQL NULL / Python None in an integer or boolean column
NULL == -1
\* SQLite stores db.Boolean as 1 / 0
SqlTrue == 1
SqlFalse == 0
\* Variant: the job may run in two instances at a time.
max_instances_two == 1 + 1
\* add_job is given no max_instances: the scheduler's default for a job
max_instances == 1

\* the threads serving requests
Procs == {"t1", "t2"}
Hosts == {"h1", "h2"}
Ports == {7777}
\* 'ip' not in api.payload
NoIp == "-"

\* The descriptive part of a registration payload (all fields supplied).
Payloads ==
    { [name |-> "s1", game_id |-> 0, game_mode |-> "ffa", game_map |-> "m1",
       current_players |-> 0, max_players |-> 2],
      [name |-> "s2", game_id |-> 1, game_mode |-> "tdm", game_map |-> "m1",
       current_players |-> 1, max_players |-> 2],
      [name |-> "s3", game_id |-> 1, game_mode |-> "ffa", game_map |-> "m2",
       current_players |-> 3, max_players |-> 0] }

VARIABLES
    store,      \* the committed rows of table `server`
    req,        \* req[p]: the request thread p is serving, and where it is
    sweeper,    \* the scheduler's job: pc, cutoff, next run time
    now,        \* wall clock (arrow.now())
    scheduler,  \* the scheduler's view of the job: next run time, the
                \* instances of the job being executed (their cutoffs)
    resp,       \* the response sent by the step that led here (NoResp if none)
    created,    \* history: created[u] = number of 201 answers for url u
    checkin,    \* history: when the last committed registration of u began
    lastPost,   \* history: payload of the last committed registration of u
    process     \* "running"; "stopped" once the exit handler has shut the
                \* scheduler down; "exited" when the process is gone

vars ==
    <<store, req, sweeper, scheduler, now, resp, created, checkin, lastPost,
      process>>

\* api.payload['url'] = '{}:{}'.format(client_addr, api.payload['port'])
FormatUrl(client_addr, port) == <<client_addr, port>>

Urls == { FormatUrl(h, p) : h \in Hosts, p \in Ports }

\* client_addr: the payload's ip when it has one, else request.remote_addr
ClientAddr(remote_addr, ip) == IF ip # NoIp THEN ip ELSE remote_addr

\* One row of table `server` (class Server).  The schema's fields leave out
\* 'ip', so the column is never given a value.
Row(url, d, registration_time, active) ==
    [url |-> url, name |-> d.name, game_id |-> d.game_id,
     registration_time |-> registration_time, ip |-> NULL, port |-> url[2],
     game_mode |-> d.game_mode, game_map |-> d.game_map,
     current_players |-> d.current_players, max_players |-> d.max_players,
     active |-> active]

\* The payload part of a row.
PayloadOf(r) ==
    [name |-> r.name, game_id |-> r.game_id, game_mode |-> r.game_mode,
     game_map |-> r.game_map, current_players |-> r.current_players,
     max_players |-> r.max_players]

\* Server.query.get(url) / filter_by(url=url): the rows with this key
RowsOf(s, url) == { r \in s : r.url = url }

Exists(s, url) == RowsOf(s, url) # {}

\* Column defaults applied by an INSERT: registration_time has the scalar
\* default arrow.now(), evaluated once when the class body runs; active
\* defaults to True.
InsertedRow(url, d) == Row(url, d, ImportTime, SqlTrue)

\* Variant: a table whose url column is not a key.
InsertAllowedNoKey(s, url) == TRUE

\* url is the primary key: the INSERT fails when a row with the key exists.
InsertAllowed(s, url) == ~Exists(s, url)

\* Variant: the UPDATE does not reach the table.
UpdateSkipped(s, url, values) == s

\* Variant: the UPDATE has no WHERE clause.
UpdateEveryRow(s, url, values) == { values : r \in s }

\* Query.update(values) on filter_by(url=url): every matching row gets all
\* columns of `values`.
UpdateByUrl(s, url, values) ==
    { IF r.url = url THEN values ELSE r : r \in s }

\* get_model_dict(new_server.data) in the update branch of post.  `inst` tells
\* what ServerSchema().load returned: the persistent row of the session (it
\* found the key), with active and registration_time just assigned, or a new
\* transient object, whose unset columns read as None.
UpdateValues(url, d, inst, ts) ==
    IF inst = "persistent"
    THEN Row(url, d, ts, SqlTrue)
    ELSE Row(url, d, NULL, NULL)

\* Variant: the comparison with the cutoff is <=.
StaleInclusive(r, cutoff) ==
    /\ r.registration_time # NULL
    /\ r.registration_time <= cutoff
    /\ r.active = SqlTrue

\* set_server_inactive's UPDATE: active = False where
\* registration_time < last_active_time and active == True.
\* (NULL compares as unknown, so such a row is not selected.)
Stale(r, cutoff) ==
    /\ r.registration_time # NULL
    /\ r.registration_time < cutoff
    /\ r.active = SqlTrue

\* Variant: the job sets every active row inactive, whatever its time.
MarkAllInactive(s, cutoff) ==
    { IF r.active = SqlTrue THEN [r EXCEPT !.active = SqlFalse] ELSE r : r \in s }

\* Variant: the job deletes the stale rows.
PurgeStale(s, cutoff) == { r \in s : ~Stale(r, cutoff) }

MarkInactive(s, cutoff) ==
    { IF Stale(r, cutoff) THEN [r EXCEPT !.active = SqlFalse] ELSE r : r \in s }

\* Variant: the age limit is one second shorter than the interval.
CutoffShort(t) == t - server_inactive_time + 1

\* last_active_time = arrow.now().shift(seconds=-server_inactive_time)
Cutoff(t) == t - server_inactive_time

\* ServerSchema().dump / jsonify: the fields of Meta.fields
Dump(r) ==
    [url |-> r.url, game_id |-> r.game_id, name |-> r.name,
     game_mode |-> r.game_mode, game_map |-> r.game_map, port |-> r.port,
     current_players |-> r.current_players, max_players |-> r.max_players]

(***************************************************************************)
(* Query arguments.  An optional argument is the empty set (None) or the   *)
(* set of its one value.                                                   *)
(***************************************************************************)
None == {}

Val(o) == CHOOSE v \in o : TRUE

\* Python truth of an optional int / str / bool: None, 0, "" and False are false
TruthyInt(o) == o # None /\ Val(o) # 0

TruthyStr(o) == o # None /\ Val(o) # ""

TruthyBool(o) == o # None /\ Val(o)

\* reqparse type=bool applies bool() to the text of the argument
ParseBool(text) == text # ""

\* server_request_parser.parse_args(): int and str arguments keep their value,
\* 'active' goes through bool
ParseArgs(q) == [q EXCEPT !.active = { ParseBool(w) : w \in q.active }]

\* Server.args2query: one filter per argument that is true in Python
args2query(rows, args) ==
    { r \in rows :
        /\ TruthyInt(args.game_id) => r.game_id = Val(args.game_id)
        /\ TruthyStr(args.game_mode) => r.game_mode = Val(args.game_mode)
        /\ TruthyStr(args.game_map) => r.game_map = Val(args.game_map)
        /\ TruthyInt(args.max_players) => r.max_players <= Val(args.max_players)
        /\ TruthyBool(args.active) => r.active = SqlTrue
        /\ TruthyInt(args.slots) =>
              r.current_players <= r.max_players - Val(args.slots) }

\* The orders in which a SELECT without ORDER BY may return the rows S.
Orderings(S) ==
    { s \in [1..Cardinality(S) -> S] :
        \A i, j \in 1..Cardinality(S) : i # j => s[i] # s[j] }

\* query.limit(limit) when `limit and limit > 0`
Limited(s, limit) ==
    IF TruthyInt(limit) /\ Val(limit) > 0 /\ Val(limit) < Len(s)
    THEN SubSeq(s, 1, Val(limit))
    ELSE s

\* order_by(registration_time.desc()).first(): the rows with the greatest
\* registration_time (NULL sorts lowest)
Latest(S) ==
    { r \in S : \A o \in S : o.registration_time <= r.registration_time }

Idle == [pc |-> "idle"]

NoResp == [op |-> "none"]

Init ==
    /\ store = {}
    /\ req = [p \in Procs |-> Idle]
    /\ sweeper = [pc |-> "idle", cutoff |-> NULL,
                  next |-> ImportTime + server_inactive_time]
    /\ scheduler = [next |-> ImportTime + server_inactive_time, running |-> <<>>]
    /\ now = ImportTime
    /\ resp = NoResp
    /\ created = [u \in Urls |-> 0]
    /\ checkin = [u \in Urls |-> NULL]
    /\ lastPost = [u \in Urls |-> None]
    /\ process = "running"

\* Time passes, up to `limit`.
Advance(limit) ==
    /\ now < limit
    /\ now' = now + 1
    /\ resp' = NoResp
    /\ UNCHANGED <<store, req, sweeper>>

Tick == Advance(MaxTime)

(***************************************************************************)
(* POST /servers, thread p.                                                *)
(***************************************************************************)
\* lines 244-256: build the url; ServerSchema().load looks the key up in the
\* session.  When it finds the row it assigns the payload to that persistent
\* object, and Server.query.get is then answered from the identity map.
\* Otherwise it makes a new transient object and the get is still to come.
PostLoad(p, remote_addr, ip, port, d) ==
    /\ req[p].pc = "idle"
    /\ LET url == FormatUrl(ClientAddr(remote_addr, ip), port) IN
       req' = [req EXCEPT ![p] =
                  IF Exists(store, url)
                  THEN [pc |-> "got", url |-> url, data |-> d, start |-> now,
                        inst |-> "persistent", found |-> TRUE]
                  ELSE [pc |-> "loaded", url |-> url, data |-> d, start |-> now]]
    /\ resp' = NoResp
    /\ UNCHANGED <<store, sweeper, now>>

\* line 256: new_server_row = Server.query.get(url), a SELECT by key
PostGet(p) ==
    /\ req[p].pc = "loaded"
    /\ LET r == req[p] IN
       req' = [req EXCEPT ![p] =
                  [pc |-> "got", url |-> r.url, data |-> r.data, start |-> r.start,
                   inst |-> "transient", found |-> Exists(store, r.url)]]
    /\ resp' = NoResp
    /\ UNCHANGED <<store, sweeper, now>>

\* lines 259-262: the row exists: active = True, registration_time = now
PostStamp(p) ==
    /\ req[p].pc = "got"
    /\ req[p].found
    /\ LET r == req[p] IN
       req' = [req EXCEPT ![p] =
                  [pc |-> "stamped", url |-> r.url, data |-> r.data,
                   start |-> r.start, inst |-> r.inst, ts |-> now]]
    /\ resp' = NoResp
    /\ UNCHANGED <<store, sweeper, now>>

\* lines 263-264: flush, then the UPDATE of all columns, commit, answer 200
PostUpdate(p) ==
    /\ req[p].pc = "stamped"
    /\ LET r == req[p] IN
       /\ store' = UpdateByUrl(store, r.url,
                               UpdateValues(r.url, r.data, r.inst, r.ts))
       /\ resp' = [op |-> "post", url |-> r.url, data |-> r.data, code |-> 200,
                   existed |-> Exists(store, r.url), start |-> r.start]
    /\ req' = [req EXCEPT ![p] = Idle]
    /\ UNCHANGED <<sweeper, now>>

\* lines 267-270: no row was found: INSERT, commit, answer 201.  When a row
\* with the key has been committed meanwhile the INSERT raises IntegrityError:
\* dbsession rolls back and re-raises, and the request ends with 500.
PostInsert(p) ==
    /\ req[p].pc = "got"
    /\ ~req[p].found
    /\ LET r == req[p]
           ok == InsertAllowed(store, r.url) IN
       /\ store' = IF ok THEN store \cup {InsertedRow(r.url, r.data)} ELSE store
       /\ resp' = [op |-> "post", url |-> r.url, data |-> r.data,
                   code |-> IF ok THEN 201 ELSE 500,
                   existed |-> Exists(store, r.url), start |-> r.start]
    /\ req' = [req EXCEPT ![p] = Idle]
    /\ UNCHANGED <<sweeper, now>>

(***************************************************************************)
(* PUT /servers/<server_url> (check-in), thread p.                         *)
(***************************************************************************)
\* lines 319-325: load, Server.query.get, then `if new_Server_row:` names a
\* variable that does not exist: NameError, the request ends with 500.
\* Nothing was committed; the session is discarded with the request.
Put(p, server_url) ==
    /\ req[p].pc = "idle"
    /\ resp' = [op |-> "put", url |-> server_url, code |-> 500,
                existed |-> Exists(store, server_url), before |-> store]
    /\ UNCHANGED <<store, req, sweeper, now>>

(***************************************************************************)
(* GET /servers/<server_url>                                               *)
(***************************************************************************)
\* Variant: the lookup answers with any row of the table.
GetAnyRow(server_url) ==
    /\ resp' = IF store # {}
               THEN [op |-> "get", url |-> server_url, code |-> 200,
                     body |-> Dump(CHOOSE r \in store : TRUE)]
               ELSE [op |-> "get", url |-> server_url, code |-> 404]
    /\ UNCHANGED <<store, req, sweeper, now>>

\* lines 305-306: get_or_404, then the row serialized
GetByUrl(server_url) ==
    /\ resp' = IF Exists(store, server_url)
               THEN [op |-> "get", url |-> server_url, code |-> 200,
                     body |-> Dump(CHOOSE r \in RowsOf(store, server_url) : TRUE)]
               ELSE [op |-> "get", url |-> server_url, code |-> 404]
    /\ UNCHANGED <<store, req, sweeper, now>>

(***************************************************************************)
(* GET /servers and GET /servers/latest                                    *)
(***************************************************************************)
\* lines 215-230: parse, filter, limit, all(); 404 when nothing is found
List(q) ==
    /\ \E s \in Orderings(args2query(store, ParseArgs(q))) :
         LET servers == Limited(s, q.limit) IN
         resp' = [op |-> "list", q |-> q, servers |-> servers,
                  data |-> [i \in DOMAIN servers |-> Dump(servers[i])],
                  code |-> IF servers # <<>> THEN 200 ELSE 404]
    /\ UNCHANGED <<store, req, sweeper, now>>

\* lines 285-292: parse, force active, filter, newest first, first_or_404
ServerLatest(q) ==
    /\ LET args == [ParseArgs(q) EXCEPT !.active = {TRUE}]
           found == Latest(args2query(store, args)) IN
       IF found = {}
       THEN resp' = [op |-> "latest", q |-> q, code |-> 404]
       ELSE \E server \in found :
               resp' = [op |-> "latest", q |-> q, code |-> 200,
                        server |-> server, body |-> Dump(server)]
    /\ UNCHANGED <<store, req, sweeper, now>>

(***************************************************************************)
(* The background job.                                                     *)
(***************************************************************************)
\* the interval trigger fires; line 350 computes last_active_time
SweepBegin ==
    /\ sweeper.pc = "idle"
    /\ now >= sweeper.next
    /\ sweeper' = [pc |-> "running", cutoff |-> Cutoff(now),
                   next |-> sweeper.next + server_inactive_time]
    /\ resp' = NoResp
    /\ UNCHANGED <<store, req, now>>

\* lines 353-356: the UPDATE and its commit
SweepCommit ==
    /\ sweeper.pc = "running"
    /\ store' = MarkInactive(store, sweeper.cutoff)
    /\ resp' = [op |-> "sweep", cutoff |-> sweeper.cutoff]
    /\ sweeper' = [sweeper EXCEPT !.pc = "idle"]
    /\ UNCHANGED <<req, now>>

(***************************************************************************)
(* The scheduler and its executor, followed run by run.                    *)
(***************************************************************************)
\* Variant: what the failed transaction wrote stays.
RollbackKeeps(committed, work) == work

\* dbsession's except branch: session.rollback() undoes what the transaction
\* wrote; the committed table is what readers see.
Rollback(committed, work) == committed

\* The scheduler's thread sleeps until the next run time of the job: the
\* clock does not pass that time before the run has been processed.
AdvanceTimely ==
    /\ now < scheduler.next
    /\ Advance(Horizon)
    /\ UNCHANGED scheduler

\* The interval has elapsed.  The scheduler submits the job to the executor,
\* unless max_instances instances of it are still running: that run is
\* skipped.  Either way the next run is one interval later.  A submitted
\* instance starts with line 350.
Trigger ==
    /\ now >= scheduler.next
    /\ LET ran == Len(scheduler.running) < max_instances IN
       /\ scheduler' = [next |-> scheduler.next + server_inactive_time,
                        running |-> IF ran
                                    THEN Append(scheduler.running, Cutoff(now))
                                    ELSE scheduler.running]
       /\ resp' = [op |-> "trigger", ran |-> ran]
    /\ UNCHANGED <<store, req, sweeper, now>>

\* the executor's instances without the i-th
Finished(running, i) ==
    [j \in 1..(Len(running) - 1) |-> IF j < i THEN running[j] ELSE running[j + 1]]

\* Variant: an exception of the job takes it off the schedule.
UnscheduledByError(sch, i) ==
    [next |-> Horizon + 1, running |-> Finished(sch.running, i)]

\* The executor catches what an instance raises, logs it and releases the
\* instance; the job's schedule is not touched.
AfterError(sch, i) == [sch EXCEPT !.running = Finished(@, i)]

\* lines 353-356 of instance i: the UPDATE and its commit
JobCommit(i) ==
    /\ i \in DOMAIN scheduler.running
    /\ store' = MarkInactive(store, scheduler.running[i])
    /\ scheduler' = [scheduler EXCEPT !.running = Finished(@, i)]
    /\ resp' = [op |-> "sweep", cutoff |-> scheduler.running[i]]
    /\ UNCHANGED <<req, sweeper, now>>

\* lines 353-356 of instance i when the UPDATE or the commit raises (the
\* database is locked, the file cannot be written): dbsession rolls back and
\* re-raises; the executor logs the exception and releases the instance, and
\* the job stays scheduled.
JobFail(i) ==
    /\ i \in DOMAIN scheduler.running
    /\ \E work \in {store, MarkInactive(store, scheduler.running[i])} :
          store' = Rollback(store, work)
    /\ scheduler' = AfterError(scheduler, i)
    /\ resp' = [op |-> "sweep_failed", cutoff |-> scheduler.running[i]]
    /\ UNCHANGED <<req, sweeper, now>>

\* lines 260-263 or 268-269 of post when a statement or the commit raises
\* for a reason other than the key: dbsession rolls back and re-raises, and
\* the request ends with 500.
PostAbort(p) ==
    /\ \/ req[p].pc = "stamped"
       \/ req[p].pc = "got" /\ ~req[p].found
    /\ LET r == req[p]
           work == IF r.pc = "stamped"
                   THEN UpdateByUrl(store, r.url,
                                    UpdateValues(r.url, r.data, r.inst, r.ts))
                   ELSE store \cup {InsertedRow(r.url, r.data)}
       IN  /\ \E w \in {store, work} : store' = Rollback(store, w)
           /\ resp' = [op |-> "post", url |-> r.url, data |-> r.data,
                       code |-> 500, existed |-> Exists(store, r.url),
                       start |-> r.start]
    /\ req' = [req EXCEPT ![p] = Idle]
    /\ UNCHANGED <<sweeper, now>>

(***************************************************************************)
(* History variables, each a function of the responses sent so far.  A     *)
(* specification records the histories its properties read and leaves the  *)
(* others as they are.                                                     *)
(***************************************************************************)
Committed(r) == r.op = "post" /\ r.code \in {200, 201}

CountCreated ==
    created' = IF resp'.op = "post" /\ resp'.code = 201
               THEN [created EXCEPT ![resp'.url] = @ + 1]
               ELSE created

TrackCheckin ==
    checkin' = IF Committed(resp')
               THEN [checkin EXCEPT ![resp'.url] = resp'.start]
               ELSE checkin

TrackLastPost ==
    lastPost' = IF Committed(resp')
                THEN [lastPost EXCEPT ![resp'.url] = {resp'.data}]
                ELSE lastPost

\* what a registration request may carry
Requests(H, D) ==
    [remote_addr : H, ip : H \cup {NoIp}, port : Ports, data : D]

(***************************************************************************)
(* Spec: one thread serves the requests one after the other, beside the    *)
(* background job, as time passes.                                         *)
(***************************************************************************)
History ==
    CountCreated /\ TrackCheckin /\ UNCHANGED <<lastPost, scheduler, process>>

Next ==
    \/ Tick /\ History
    \/ \E x \in Requests(Hosts, Payloads) :
          PostLoad("t1", x.remote_addr, x.ip, x.port, x.data) /\ History
    \/ PostGet("t1") /\ History
    \/ PostStamp("t1") /\ History
    \/ PostUpdate("t1") /\ History
    \/ PostInsert("t1") /\ History
    \/ \E u \in Urls : Put("t1", u) /\ History
    \/ SweepBegin /\ History
    \/ SweepCommit /\ History

Spec == Init /\ [][Next]_vars

(***************************************************************************)
(* SpecRace: two threads serve registrations at the same time (the clock   *)
(* does not advance while they do); lookups in between.                    *)
(***************************************************************************)
HistoryRace ==
    CountCreated /\ TrackLastPost /\ UNCHANGED <<checkin, scheduler, process>>

NextRace ==
    \/ \E p \in Procs, x \in Requests(Hosts, Payloads) :
          PostLoad(p, x.remote_addr, x.ip, x.port, x.data) /\ HistoryRace
    \/ \E p \in Procs : PostGet(p) /\ HistoryRace
    \/ \E p \in Procs : PostStamp(p) /\ HistoryRace
    \/ \E p \in Procs : PostUpdate(p) /\ HistoryRace
    \/ \E p \in Procs : PostInsert(p) /\ HistoryRace
    \/ \E u \in Urls : GetByUrl(u) /\ HistoryRace

SpecRace == Init /\ [][NextRace]_vars

(***************************************************************************)
(* SpecHot: two threads serve registrations and check-ins at the same time *)
(* beside the background job, as time passes.                              *)
(***************************************************************************)
HotPayloads == { d \in Payloads : d.name = "s1" }

HistoryHot == CountCreated /\ UNCHANGED <<checkin, lastPost, scheduler, process>>

NextHot ==
    \/ Tick /\ HistoryHot
    \/ \E p \in Procs, x \in Requests(Hosts, HotPayloads) :
          PostLoad(p, x.remote_addr, x.ip, x.port, x.data) /\ HistoryHot
    \/ \E p \in Procs : PostGet(p) /\ HistoryHot
    \/ \E p \in Procs : PostStamp(p) /\ HistoryHot
    \/ \E p \in Procs : PostUpdate(p) /\ HistoryHot
    \/ \E p \in Procs : PostInsert(p) /\ HistoryHot
    \/ \E p \in Procs, u \in Urls : Put(p, u) /\ HistoryHot
    \/ SweepBegin /\ HistoryHot
    \/ SweepCommit /\ HistoryHot

SpecHot == Init /\ [][NextHot]_vars

(***************************************************************************)
(* SpecQuery: one thread serves registrations beside the background job;   *)
(* list and latest queries arrive while no other request is being served,  *)
(* and a query that follows a query repeats it.                            *)
(***************************************************************************)
\* Queries by game and liveness, with or without a limit ...
QueriesByGame ==
    [game_id : {None, {0}, {1}}, game_mode : {None}, game_map : {None},
     max_players : {None}, active : {None, {"true"}, {"false"}},
     slots : {None}, limit : {None, {0}, {1}}]

\* ... and queries by mode, map and capacity.
QueriesByRoom ==
    [game_id : {None}, game_mode : {None, {"ffa"}}, game_map : {None, {"m1"}},
     max_players : {None, {0}, {2}}, active : {None},
     slots : {None, {0}, {1}}, limit : {None}]

Queries == QueriesByGame \cup QueriesByRoom

Quiet == req["t1"].pc = "idle" /\ sweeper.pc = "idle"

MayAsk(q) == Quiet /\ (resp.op \in {"list", "latest"} => resp.q = q)

HistoryQuery ==
    CountCreated /\ UNCHANGED <<checkin, lastPost, scheduler, process>>

NextQuery ==
    \/ Tick /\ HistoryQuery
    \/ \E x \in Requests(Hosts, Payloads) :
          PostLoad("t1", x.remote_addr, x.ip, x.port, x.data) /\ HistoryQuery
    \/ PostGet("t1") /\ HistoryQuery
    \/ PostStamp("t1") /\ HistoryQuery
    \/ PostUpdate("t1") /\ HistoryQuery
    \/ PostInsert("t1") /\ HistoryQuery
    \/ SweepBegin /\ HistoryQuery
    \/ SweepCommit /\ HistoryQuery
    \/ \E q \in Queries : MayAsk(q) /\ List(q) /\ HistoryQuery
    \/ \E q \in Queries : MayAsk(q) /\ ServerLatest(q) /\ HistoryQuery

SpecQuery == Init /\ [][NextQuery]_vars

(***************************************************************************)
(* SpecJobs: one thread serves registrations, check-ins, lookups and       *)
(* queries beside the scheduler, which is followed run by run; a           *)
(* transaction may fail.  Lookups and queries, which write nothing, arrive *)
(* while nothing else is in progress.                                      *)
(***************************************************************************)
\* the queries without criteria other than liveness
PlainQueries == { q \in QueriesByGame : q.game_id = None /\ q.limit = None }

\* no registration and no instance of the job is in progress
Calm == req["t1"].pc = "idle" /\ scheduler.running = <<>>

HistoryJobs == CountCreated /\ UNCHANGED <<checkin, lastPost, process>>

NextJobs ==
    \/ AdvanceTimely /\ HistoryJobs
    \/ \E x \in Requests(Hosts, HotPayloads) :
          /\ PostLoad("t1", x.remote_addr, x.ip, x.port, x.data)
          /\ HistoryJobs /\ UNCHANGED scheduler
    \/ PostGet("t1") /\ HistoryJobs /\ UNCHANGED scheduler
    \/ PostStamp("t1") /\ HistoryJobs /\ UNCHANGED scheduler
    \/ PostUpdate("t1") /\ HistoryJobs /\ UNCHANGED scheduler
    \/ PostInsert("t1") /\ HistoryJobs /\ UNCHANGED scheduler
    \/ PostAbort("t1") /\ HistoryJobs /\ UNCHANGED scheduler
    \/ \E u \in Urls : Put("t1", u) /\ HistoryJobs /\ UNCHANGED scheduler
    \/ \E u \in Urls :
          Calm /\ GetByUrl(u) /\ HistoryJobs /\ UNCHANGED scheduler
    \/ \E q \in PlainQueries :
          Calm /\ List(q) /\ HistoryJobs /\ UNCHANGED scheduler
    \/ \E q \in PlainQueries :
          Calm /\ ServerLatest(q) /\ HistoryJobs /\ UNCHANGED scheduler
    \/ Trigger /\ HistoryJobs
    \/ \E i \in 1..max_instances : JobCommit(i) /\ HistoryJobs
    \/ \E i \in 1..max_instances : JobFail(i) /\ HistoryJobs

SpecJobs == Init /\ [][NextJobs]_vars

\* SpecJobsFair: moreover the clock goes on (up to the horizon) and the
\* scheduler's thread, which does nothing else, processes a run that is due.
SpecJobsFair ==
    /\ SpecJobs
    /\ WF_vars(AdvanceTimely /\ HistoryJobs)
    /\ WF_vars(Trigger /\ HistoryJobs)

(***************************************************************************)
(* SpecExit: one thread serves registrations beside the scheduler, and the *)
(* process exits at some moment.                                           *)
(***************************************************************************)
\* line 366, the exit handler: scheduler.shutdown(wait=False).  The scheduler
\* is stopped, so that no run is processed any more, and the executor is
\* shut down without waiting for the instances it is executing: the call
\* returns at once.
Shutdown ==
    /\ process = "running"
    /\ process' = "stopped"
    /\ resp' = [op |-> "shutdown"]
    /\ UNCHANGED <<store, req, sweeper, scheduler, now>>

\* The interpreter ends.  An instance that has not committed by then never
\* does; a request still being served is dropped.
ProcessEnds ==
    /\ process = "stopped"
    /\ process' = "exited"
    /\ scheduler' = [scheduler EXCEPT !.running = <<>>]
    /\ req' = [p \in Procs |-> Idle]
    /\ resp' = NoResp
    /\ UNCHANGED <<store, sweeper, now>>

\* the clock, once the scheduler no longer holds runs that are due
AdvanceStopped ==
    /\ process # "running"
    /\ Advance(Horizon)
    /\ UNCHANGED scheduler

HistoryExit == CountCreated /\ UNCHANGED <<checkin, lastPost>>

Serving == process = "running"

Alive == process # "exited"

NextExit ==
    \/ Serving /\ AdvanceTimely /\ HistoryExit /\ UNCHANGED process
    \/ AdvanceStopped /\ HistoryExit /\ UNCHANGED process
    \/ \E x \in Requests(Hosts, HotPayloads) :
          /\ Serving
          /\ PostLoad("t1", x.remote_addr, x.ip, x.port, x.data)
          /\ HistoryExit /\ UNCHANGED <<scheduler, process>>
    \/ PostGet("t1") /\ HistoryExit /\ UNCHANGED <<scheduler, process>>
    \/ PostStamp("t1") /\ HistoryExit /\ UNCHANGED <<scheduler, process>>
    \/ PostUpdate("t1") /\ HistoryExit /\ UNCHANGED <<scheduler, process>>
    \/ PostInsert("t1") /\ HistoryExit /\ UNCHANGED <<scheduler, process>>
    \/ Serving /\ Trigger /\ HistoryExit /\ UNCHANGED process
    \/ \E i \in 1..max_instances :
          Alive /\ JobCommit(i) /\ HistoryExit /\ UNCHANGED process
    \/ \E i \in 1..max_instances :
          Alive /\ JobFail(i) /\ HistoryExit /\ UNCHANGED process
    \/ Shutdown /\ HistoryExit
    \/ ProcessEnds /\ HistoryExit

SpecExit == Init /\ [][NextExit]_vars

(***************************************************************************)
(* Properties.                                                             *)
(***************************************************************************)
TTL == server_inactive_time

\* a registration of url is in flight
InFlight(url) == \E p \in Procs : req[p].pc # "idle" /\ req[p].url = url

\* C1 (SpecRace): every registration ends as Created (201) or Updated (200),
\* never as a failure; it is Created exactly when no row for its address
\* existed when it took effect, and exactly one registration of an address is
\* ever Created.
C1_CreatedOrUpdated ==
    resp.op = "post" =>
        /\ resp.code \in {200, 201}
        /\ resp.code = 201 <=> ~resp.existed
        /\ created[resp.url] = 1

\* C2 (Spec): after a registration of A completes, first or repeated, the
\* row of A has active = true, last_checkin (registration_time) equal to the
\* time of that call, and the mutable fields of the payload.
C2_RegistrationStored ==
    resp.op = "post" =>
        \E r \in store :
            /\ r.url = resp.url
            /\ r.active = SqlTrue
            /\ r.registration_time \in resp.start..now
            /\ PayloadOf(r) = resp.data

\* C3 (Spec): a row goes from active to inactive only in a sweep and only
\* when its server's last registration is at least TTL old: a server that
\* registered (for the first time or again) less than TTL ago is never made
\* inactive.
C3_InactiveOnlyWhenStale ==
    [][\A r \in store : \A r2 \in store' :
          (r2.url = r.url /\ r.active = SqlTrue /\ r2.active = SqlFalse) =>
              /\ sweeper.pc = "running" /\ sweeper'.pc = "idle"
              /\ now - checkin[r.url] >= TTL]_vars

\* C4 (Spec): a sweep that reads the clock at time t uses the cutoff t - T,
\* and its one step sets active = false for exactly the rows with
\* active = true and last_checkin < t - T: every other row and every other
\* column stay as they are, and no row is added or removed.
C4_SweepFrame ==
    [][/\ (sweeper.pc = "idle" /\ sweeper'.pc = "running") =>
              sweeper'.cutoff = now - server_inactive_time
       /\ (sweeper.pc = "running" /\ sweeper'.pc = "idle") =>
              /\ Cardinality(store') = Cardinality(store)
              /\ \A r \in store :
                    LET hit == /\ r.active = SqlTrue
                               /\ r.registration_time # NULL
                               /\ r.registration_time < sweeper.cutoff
                    IN  IF hit
                        THEN [r EXCEPT !.active = SqlFalse] \in store'
                        ELSE r \in store']_vars

\* a sweep has just set one row inactive and left another, younger one active
C4_Witness ==
    /\ resp.op = "sweep"
    /\ \E r \in store : r.active = SqlFalse /\ r.registration_time < resp.cutoff
    /\ \E r \in store : r.active = SqlTrue /\ r.registration_time >= resp.cutoff

\* C5 (Spec): a check-in on a known address answers 200 and leaves its row
\* active with last_checkin = now; on an unknown address it answers 404 and
\* leaves the store as it was.
C5_Checkin ==
    resp.op = "put" =>
        IF resp.existed
        THEN /\ resp.code = 200
             /\ \E r \in store : /\ r.url = resp.url
                                 /\ r.active = SqlTrue
                                 /\ r.registration_time = now
        ELSE /\ resp.code = 404
             /\ store = resp.before

\* What the caller of a query means by the text of `active`.
Means(text) == text = "true"

\* The match rules of the query criteria: a supplied criterion filters,
\* whatever its value.
Satisfies(r, q) ==
    /\ q.game_id # None => r.game_id = Val(q.game_id)
    /\ q.game_mode # None => r.game_mode = Val(q.game_mode)
    /\ q.game_map # None => r.game_map = Val(q.game_map)
    /\ q.max_players # None => r.max_players <= Val(q.max_players)
    /\ q.active # None => ((r.active = SqlTrue) <=> Means(Val(q.active)))
    /\ q.slots # None => r.max_players - r.current_players >= Val(q.slots)

Range(s) == { s[i] : i \in DOMAIN s }

\* C6 (SpecQuery): a list query without limit returns exactly the rows that
\* satisfy every supplied criterion.
C6_FilterExact ==
    (resp.op = "list" /\ resp.q.limit = None) =>
        Range(resp.servers) = { r \in store : Satisfies(r, resp.q) }

\* C7 (SpecQuery): with a positive limit L the result has at most L rows,
\* all of them rows of the unlimited result; without one it has them all;
\* and the order is a fixed one: a query repeated against the same store
\* returns the same sequence.
C7_LimitDeterministic ==
    [][resp'.op = "list" =>
          LET all == args2query(store', ParseArgs(resp'.q))
              L == resp'.q.limit
          IN  /\ Range(resp'.servers) \subseteq all
              /\ IF L # None /\ Val(L) > 0
                 THEN Len(resp'.servers) =
                         (IF Val(L) < Cardinality(all) THEN Val(L)
                          ELSE Cardinality(all))
                 ELSE Range(resp'.servers) = all
              /\ (resp.op = "list" /\ resp.q = resp'.q) =>
                     resp'.servers = resp.servers]_vars

\* C8 (SpecQuery): the latest query returns one active row that satisfies
\* every supplied criterion and has the greatest last_checkin among such
\* rows, whatever `active` the caller supplied; it answers 404 exactly when
\* there is no such row.
C8_Latest ==
    resp.op = "latest" =>
        LET want == { r \in store :
                        /\ r.active = SqlTrue
                        /\ Satisfies(r, [resp.q EXCEPT !.active = None]) }
        IN  IF want = {}
            THEN resp.code = 404
            ELSE /\ resp.code = 200
                 /\ resp.server \in want
                 /\ \A o \in want :
                       o.registration_time <= resp.server.registration_time

\* C9 (SpecRace): for any interleaving of registrations of A, a lookup of A
\* made when none of them is in flight any more returns the field values of
\* the registration that completed (answered 200 or 201) most recently, and
\* no field of an earlier one.
C9_LastWriterWins ==
    (resp.op = "get" /\ lastPost[resp.url] # None /\ ~InFlight(resp.url)) =>
        /\ resp.code = 200
        /\ PayloadOf(resp.body) = Val(lastPost[resp.url])

\* a lookup of an address whose row was last written by a registration that
\* overlapped another one (it updated a row it had not found when it loaded)
C9_Witness ==
    /\ resp.op = "get" /\ resp.code = 200 /\ ~InFlight(resp.url)
    /\ created[resp.url] = 1
    /\ \E r \in RowsOf(store, resp.url) : r.registration_time = NULL

\* C10 (SpecHot): the store never holds two rows with the same address.
C10_OneRowPerAddress ==
    \A r1, r2 \in store : r1.url = r2.url => r1 = r2

\* both addresses are stored, one row has been swept, and a registration has
\* just lost the race for the insert
C10_Witness ==
    /\ Cardinality(store) = 2
    /\ \E r \in store : r.active = SqlFalse
    /\ resp.op = "post" /\ resp.code = 500

\* What the registration contract asks of a payload's player counts.
ValidPlayers(d) == 0 <= d.current_players /\ d.current_players <= d.max_players

\* C11 (Spec): a registration whose payload does not satisfy
\* max_players >= current_players >= 0 is answered 400 and writes nothing, so
\* every stored row satisfies 0 <= current_players <= max_players.
C11_PlayersValidated ==
    /\ (resp.op = "post" /\ ~ValidPlayers(resp.data)) => resp.code = 400
    /\ \A r \in store : ValidPlayers(r)

\* C12 (SpecHot): across successive writes to an address, whether by
\* registrations one after the other or overlapping in time, the stored
\* last_checkin (registration_time) never decreases.  (A write that leaves
\* the column NULL is not counted as a decrease here.)
C12_CheckinMonotonic ==
    [][\A r \in store : \A r2 \in store' :
          (r2.url = r.url /\ r2.registration_time # NULL) =>
              r2.registration_time >= r.registration_time]_vars

\* A row without its last_checkin and active columns.
Descriptive(r) == [r EXCEPT !.registration_time = NULL, !.active = NULL]

\* C13 (SpecHot): a registration of an existing address whose payload is
\* identical to the stored one changes nothing of that row but last_checkin
\* and active, and changes no other row.
C13_Idempotent ==
    [][(/\ resp'.op = "post" /\ resp'.code = 200
        /\ \E r \in store : r.url = resp'.url /\ PayloadOf(r) = resp'.data) =>
           /\ Cardinality(store') = Cardinality(store)
           /\ \A r \in store :
                 IF r.url = resp'.url
                 THEN \E r2 \in store' : Descriptive(r2) = Descriptive(r)
                 ELSE r \in store']_vars

\* a registration has just updated the row of its address with the payload
\* the row already had (every registration of SpecHot carries the same
\* payload), at a later time, beside the row of the other address
C13_Witness ==
    /\ resp.op = "post" /\ resp.code = 200
    /\ Cardinality(store) = 2
    /\ \E r \in store : /\ r.url = resp.url
                         /\ PayloadOf(r) = resp.data
                         /\ \A d \in HotPayloads : d = resp.data
                         /\ r.registration_time = now /\ now > ImportTime
                         /\ r.active = SqlTrue

\* a mutating operation has ended in a failure
Failed(r) ==
    \/ r.op \in {"post", "put"} /\ r.code = 500
    \/ r.op = "sweep_failed"

\* C14 (SpecJobs): a registration, check-in or sweep that fails leaves the
\* committed table, which is what readers see, exactly as it was: nothing
\* the failed transaction wrote is observable.
C14_FailureRollsBack ==
    [][Failed(resp') => store' = store]_vars

\* a registration of a known address, which would have set its inactive row
\* active again, has failed, and the row is still inactive
C14_Witness ==
    /\ resp.op = "post" /\ resp.code = 500 /\ resp.existed
    /\ \E r \in store : r.url = resp.url /\ r.active = SqlFalse

\* C15 (SpecRace): a lookup of an address answers 200 with the row stored
\* under exactly that address when there is one and 404 when there is none,
\* and leaves the table as it is.
C15_PointLookup ==
    [][resp'.op = "get" =>
          /\ store' = store
          /\ IF \E r \in store : r.url = resp'.url
             THEN /\ resp'.code = 200
                  /\ \E r \in store :
                        /\ r.url = resp'.url
                        /\ resp'.body.url = r.url
                        /\ resp'.body.port = r.port
                        /\ PayloadOf(resp'.body) = PayloadOf(r)
             ELSE resp'.code = 404]_vars

\* a lookup of an address that has no row has been answered 404 while the
\* table holds the row of another address
C15_Witness ==
    /\ resp.op = "get" /\ resp.code = 404
    /\ store # {}
    /\ \A r \in store : r.url # resp.url

\* C16 (SpecJobs): a row, once created, stays: no registration, check-in,
\* sweep, lookup or query (nor a failure of one) removes the row of an
\* address.
C16_NeverRemoved ==
    [][\A r \in store : \E r2 \in store' : r2.url = r.url]_vars

\* both addresses have a row, sweeps have set both inactive, and a latest
\* query has just found no active server
C16_Witness ==
    /\ resp.op = "latest" /\ resp.code = 404
    /\ Cardinality(store) = 2
    /\ \A r \in store : r.active = SqlFalse

\* C17 (SpecJobs): a sweep and a registration of an existing address A that
\* overlap lose no update.  The registration's commit leaves A's row with the
\* registration's fields, its timestamp and active = true, whatever a sweep
\* did before; the sweep's commit changes no field and no last_checkin, and
\* sets A inactive only when the row it finds at that moment, the
\* registration's if that has committed, has last_checkin below the sweep's
\* cutoff.
C17_SweepAndRegistration ==
    [][/\ (resp'.op = "post" /\ resp'.code = 200) =>
             \E r \in store' :
                 /\ r.url = resp'.url
                 /\ PayloadOf(r) = resp'.data
                 /\ r.registration_time = req["t1"].ts
                 /\ r.active = SqlTrue
       /\ resp'.op = "sweep" =>
             \A r \in store : \E r2 \in store' :
                 /\ Descriptive(r2) = Descriptive(r)
                 /\ r2.registration_time = r.registration_time
                 /\ r2.active # r.active =>
                        /\ r2.active = SqlFalse
                        /\ r.registration_time < resp'.cutoff]_vars

\* a registration of an existing address read the clock, a sweep then began
\* with a cutoff above that time, and the registration has now committed
\* while the sweep is still to apply its batch
C17_Witness ==
    /\ resp.op = "post" /\ resp.code = 200
    /\ Len(scheduler.running) = 1
    /\ \E r \in store : /\ r.url = resp.url
                         /\ r.active = SqlTrue
                         /\ r.registration_time > ImportTime
                         /\ r.registration_time < scheduler.running[1]

C19_FailedSweepRetried ==
    /\ [][resp'.op = "sweep_failed" => store' = store]_vars
    /\ [](resp.op = "sweep_failed" =>
            /\ scheduler.next <= now + server_inactive_time
            /\ (now + server_inactive_time <= Horizon =>
                   <>(resp.op = "trigger" /\ resp.ran)))

\* a sweep that would have set a row inactive has failed, that row is still
\* active, and the next run is within the horizon
C19_Witness ==
    /\ resp.op = "sweep_failed"
    /\ now + server_inactive_time <= Horizon
    /\ \E r \in store : Stale(r, resp.cutoff)

\* C20 (Spec): the age limit and the interval of the sweeps are the same T.
\* A sweep sets a row inactive only when more than T has passed since its
\* stored last_checkin, which leaves a server that registers again exactly T
\* after its last registration exposed until that registration commits: the
\* state C20_Witness, in which a sweep has set it inactive in between, is
\* reachable.
C20_InactiveOnlyAfterT ==
    [][/\ sweeper'.next # sweeper.next =>
             /\ sweeper'.next = sweeper.next + server_inactive_time
             /\ sweeper'.cutoff = now - server_inactive_time
       /\ \A r \in store : \A r2 \in store' :
             (r2.url = r.url /\ r.active = SqlTrue /\ r2.active = SqlFalse) =>
                 now - r.registration_time > server_inactive_time]_vars

\* a server registered at time t and sent its next registration at t + T;
\* before that one has committed, a sweep has just set the server inactive
C20_Witness ==
    /\ resp.op = "sweep"
    /\ req["t1"].pc # "idle"
    /\ \E r \in store :
          /\ r.url = req["t1"].url
          /\ r.active = SqlFalse
          /\ r.registration_time = checkin[r.url]
          /\ r.registration_time < resp.cutoff
          /\ req["t1"].start = checkin[r.url] + server_inactive_time

\* C21 (SpecExit): no sweep starts once the shutdown has begun, and the
\* shutdown is not finished while a sweep that was running is still
\* executing.
C21_ShutdownAwaitsSweep ==
    /\ (resp.op = "trigger" /\ resp.ran) => process = "running"
    /\ process # "running" => scheduler.running = <<>>

====
